---------------------------- MODULE Spec2Model ----------------------------
(***************************************************************************)
(* Drawable pipeline orchestration of vide (src/src/drawable.rs).          *)
(*                                                                         *)
(* A DrawablePipeline wraps one boxed Drawable.  DrawablePipeline::new     *)
(* derives the bind-group layout and the bind group from the drawable's    *)
(* references; create_pipeline builds the render pipeline inside a         *)
(* validation error scope and installs it only on success; draw binds the  *)
(* pipeline state and delegates to the drawable.                           *)
(*                                                                         *)
(* Option<T> is modelled as a sequence: <<>> is None, <<x>> is Some(x).    *)
(***************************************************************************)
EXTENDS Naturals, Sequences, FiniteSets, TLC

VARIABLES
    drawables,      \* d -> Option<DrawablePipeline>: None until registered
    pending,        \* d -> Option<locals of d's create_pipeline suspended at .await>
    error_scopes,   \* the device's error scope stack, top last
    next_pipeline,  \* id the device gives to the next render pipeline object
    call_log,       \* calls the most recent create_pipeline made on the device and the shaders
    pass_log,       \* calls made by the most recent DrawablePipeline::draw
    panicked,       \* an unwrap() has panicked: the program is gone
    raised,         \* d -> the device raised a diagnostic in d's most recent attempt
    \* WinitRenderer (src/src/winit_renderer.rs)
    surface,             \* Option<Surface>: its id and the configuration it holds
    surface_config,      \* the stored SurfaceConfiguration
    window_initializing, \* set by NewEvents
    start_cause,         \* Option: the cause of the most recent NewEvents
    next_surface,        \* id the instance gives to the next surface it creates
    winit_log,           \* the most recent handle_event or draw: input, calls, result
    \* Renderer, as both backends see it: its width and height
    renderer,
    \* OffscreenRenderer::draw (src/src/offscreen_renderer.rs)
    offscreen_pc,        \* number of steps of the running draw already taken
    offscreen_locals,    \* the locals of the running draw
    gpu,                 \* the device and queue: submitted work, mapping, channel
    offscreen_log        \* the steps of the running draw, in the order taken

winit_vars == <<surface, surface_config, window_initializing, start_cause,
                next_surface, winit_log>>
offscreen_vars == <<offscreen_pc, offscreen_locals, gpu, offscreen_log>>

vars == <<drawables, pending, error_scopes, next_pipeline, call_log,
          pass_log, panicked, raised, winit_vars, renderer, offscreen_vars>>

(***************************************************************************)
(* Bounds of the model.                                                    *)
(***************************************************************************)
NumDrawables == 2
MaxRefs == 2
MaxPipelines == 2
\* Widths and heights a window reports: 0..MaxSize.
MaxSize == 2
\* Surfaces the instance creates in one run.
MaxSurfaces == 2
\* Sizes of an OffscreenRenderer: 0..MaxWidth by 0..MaxHeight.  With these
\* no u32 value computed by draw reaches 2^32, so its arithmetic is exact.
MaxWidth == 65
MaxHeight == 2

Drawables == 1..NumDrawables

None == <<>>
Some(x) == <<x>>
Unwrap(o) == o[1]

(***************************************************************************)
(* DrawableReference implementations.  A reference is identified by id,   *)
(* its position in the drawable's declaration order.  layout() and entry() *)
(* come back with whatever binding the implementer wrote: here a slot      *)
(* outside 0..MaxRefs-1, so that the re-indexing done by new is visible.   *)
(***************************************************************************)
ReferenceImpls(id) ==
    [id : {id}, has_layout : BOOLEAN, has_entry : BOOLEAN, has_vertex : BOOLEAN]

layout(reference) ==
    IF reference.has_layout
    THEN Some([binding |-> MaxRefs, resource |-> reference.id])
    ELSE None

entry(reference) ==
    IF reference.has_entry
    THEN Some([binding |-> MaxRefs, resource |-> reference.id])
    ELSE None

vertex(reference) ==
    IF reference.has_vertex
    THEN Some([stream |-> reference.id])
    ELSE None

\* The reference lists a drawable can expose: at most MaxRefs references.
RECURSIVE ReferenceListsOfLen(_)
ReferenceListsOfLen(n) ==
    IF n = 0 THEN {<<>>}
    ELSE {Append(s, r) : s \in ReferenceListsOfLen(n - 1), r \in ReferenceImpls(n)}

ReferenceLists == UNION {ReferenceListsOfLen(n) : n \in 0..MaxRefs}

DrawableName(d) == "drawable" \o ToString(d)

\* The drawable instances that can be registered as drawable d.
DrawableInstances(d) ==
    [name : {DrawableName(d)}, references : ReferenceLists]

\* One such instance: a drawable with a single reference that is bound and
\* has a vertex stream.
BatchInstance(d) ==
    [name       |-> DrawableName(d),
     references |-> <<[id |-> 1, has_layout |-> TRUE, has_entry |-> TRUE,
                       has_vertex |-> TRUE]>>]

(***************************************************************************)
(* Iterator adaptors used by new and try_create_pipeline.                  *)
(***************************************************************************)
\* .filter_map(|reference| ...), given the closure's Option for each reference
\* in order: the Some values are kept, in order, and the None dropped.
RECURSIVE filter_map(_)
filter_map(options) ==
    IF options = <<>> THEN <<>>
    ELSE (IF Head(options) = None THEN <<>> ELSE <<Unwrap(Head(options))>>)
         \o filter_map(Tail(options))

\* Mutant: the implementer's binding is kept.
enumerate_rebind_keeping(s) == s

\* .enumerate().map(|(index, mut x)| { x.binding = index as u32; x })
enumerate_rebind(s) ==
    [i \in 1..Len(s) |-> [s[i] EXCEPT !.binding = i - 1]]

(***************************************************************************)
(* DrawablePipeline::new                                                   *)
(***************************************************************************)
bind_group_layout_entries(drawable) ==
    enumerate_rebind(filter_map(
        [i \in 1..Len(drawable.references) |-> layout(drawable.references[i])]))

bind_group_entries(drawable) ==
    enumerate_rebind(filter_map(
        [i \in 1..Len(drawable.references) |-> entry(drawable.references[i])]))

\* Mutant: new starts out with a pipeline object in place.
DrawablePipeline_new_ready(drawable) ==
    [drawable          |-> drawable,
     name              |-> drawable.name,
     bind_group_layout |-> [label   |-> drawable.name \o " bind group layout",
                            entries |-> bind_group_layout_entries(drawable)],
     bind_group        |-> [label   |-> drawable.name \o " bind group",
                            entries |-> bind_group_entries(drawable)],
     render_pipeline   |-> Some([id      |-> 0,
                                 label   |-> drawable.name \o " Pipeline",
                                 buffers |-> <<>>])]

DrawablePipeline_new(drawable) ==
    [drawable          |-> drawable,
     name              |-> drawable.name,
     bind_group_layout |-> [label   |-> drawable.name \o " bind group layout",
                            entries |-> bind_group_layout_entries(drawable)],
     bind_group        |-> [label   |-> drawable.name \o " bind group",
                            entries |-> bind_group_entries(drawable)],
     render_pipeline   |-> None]

Registered(d) == drawables[d] # None
DP(d) == Unwrap(drawables[d])

ready(d) == DP(d).render_pipeline # None

New(d) ==
    /\ ~panicked
    /\ drawables[d] = None
    /\ \E drawable \in DrawableInstances(d) :
          drawables' = [drawables EXCEPT ![d] = Some(DrawablePipeline_new(drawable))]
    /\ UNCHANGED <<pending, error_scopes, next_pipeline, call_log, pass_log,
                   panicked, raised>>
    /\ UNCHANGED <<winit_vars, renderer, offscreen_vars>>

(***************************************************************************)
(* The wgpu Device as create_pipeline uses it: a stack of error scopes, a  *)
(* source of pipeline objects, and (for the record) the calls received.   *)
(* A device value is [scopes, next, log].                                  *)
(***************************************************************************)
Call(op, ret) == [op |-> op, ret |-> ret]

\* An error is delivered to the innermost open scope with a matching filter;
\* a scope keeps the first error it captures.  With no matching scope the
\* error goes to the uncaptured-error handler and no scope changes.
\* Mutant: the error is delivered to the outermost matching scope.
report_error_outermost(scopes, filter, error) ==
    LET matching == {i \in 1..Len(scopes) : scopes[i].filter = filter}
    IN  IF matching = {} THEN scopes
        ELSE LET bottom == CHOOSE i \in matching : \A j \in matching : i <= j
             IN  IF scopes[bottom].error = None
                 THEN [scopes EXCEPT ![bottom].error = Some(error)]
                 ELSE scopes

report_error(scopes, filter, error) ==
    LET matching == {i \in 1..Len(scopes) : scopes[i].filter = filter}
    IN  IF matching = {} THEN scopes
        ELSE LET top == CHOOSE i \in matching : \A j \in matching : j <= i
             IN  IF scopes[top].error = None
                 THEN [scopes EXCEPT ![top].error = Some(error)]
                 ELSE scopes

push_error_scope(dev, filter) ==
    [dev EXCEPT !.scopes = Append(@, [filter |-> filter, error |-> None]),
                !.log    = Append(@, Call("push_error_scope", None))]

\* Returns the device after the pop and the error the popped scope held.
pop_error_scope(dev) ==
    LET top == dev.scopes[Len(dev.scopes)]
    IN  [dev   |-> [dev EXCEPT !.scopes = SubSeq(@, 1, Len(@) - 1),
                               !.log    = Append(@, Call("pop_error_scope", top.error))],
         error |-> top.error]

create_pipeline_layout(dev, valid) ==
    [dev EXCEPT !.scopes = IF valid THEN @
                           ELSE report_error(@, "Validation", "create_pipeline_layout"),
                !.log    = Append(@, Call("create_pipeline_layout", None))]

\* Always hands back a pipeline object; an invalid descriptor is reported
\* through the error scopes, not through the return value.
create_render_pipeline(dev, descriptor, valid) ==
    LET pipeline == [id      |-> dev.next,
                     label   |-> descriptor.label,
                     buffers |-> descriptor.buffers]
    IN  [dev      |-> [dev EXCEPT
                         !.scopes = IF valid THEN @
                                    ELSE report_error(@, "Validation", "create_render_pipeline"),
                         !.next   = @ + 1,
                         !.log    = Append(@, Call("create_render_pipeline", Some(pipeline)))],
         pipeline |-> pipeline]

(***************************************************************************)
(* ShaderModules: the provider passed to create_pipeline, keyed by name.   *)
(***************************************************************************)
Ok(x) == [ok |-> TRUE, value |-> x]
Err(e) == [ok |-> FALSE, value |-> e]

\* The providers create_pipeline can be handed for a drawable of this name:
\* only the modules under that name are ever looked up.
ShaderProviders(name) == [vertex : SUBSET {name}, fragment : SUBSET {name}]

get_vertex(shaders, name) ==
    IF name \in shaders.vertex THEN Ok([stage |-> "vertex", name |-> name])
    ELSE Err("no vertex shader " \o name)

get_fragment(shaders, name) ==
    IF name \in shaders.fragment THEN Ok([stage |-> "fragment", name |-> name])
    ELSE Err("no fragment shader " \o name)

\* What the device's validation makes of the two descriptors of one attempt.
Validations == [layout : BOOLEAN, pipeline : BOOLEAN]

(***************************************************************************)
(* DrawablePipeline::try_create_pipeline.  Returns the Result and the      *)
(* device as the attempt left it.                                          *)
(***************************************************************************)
\* Mutant: a reference that is bound in the bind group gives no vertex buffer.
vertex_buffer_layouts_unbound_only(self) ==
    filter_map([i \in 1..Len(self.drawable.references) |->
                    IF layout(self.drawable.references[i]) # None
                    THEN None
                    ELSE vertex(self.drawable.references[i])])

vertex_buffer_layouts(self) ==
    filter_map([i \in 1..Len(self.drawable.references) |->
                    vertex(self.drawable.references[i])])

\* Mutant: a missing fragment module does not end the attempt.
try_create_pipeline_unchecked_fragment(self, dev, shaders, valid) ==
    LET dev1    == create_pipeline_layout(dev, valid.layout)
        buffers == vertex_buffer_layouts(self)
        vs      == get_vertex(shaders, self.name)
        dev2    == [dev1 EXCEPT !.log = Append(@, Call("get_vertex", Some(vs.ok)))]
        fs      == get_fragment(shaders, self.name)
        dev3    == [dev2 EXCEPT !.log = Append(@, Call("get_fragment", Some(fs.ok)))]
    IN  IF ~vs.ok THEN [result |-> Err(vs.value), dev |-> dev2]
        ELSE LET made == create_render_pipeline(
                             dev3,
                             [label   |-> self.name \o " Pipeline",
                              buffers |-> buffers],
                             valid.pipeline)
             IN  [result |-> Ok(made.pipeline), dev |-> made.dev]

try_create_pipeline(self, dev, shaders, valid) ==
    LET dev1    == create_pipeline_layout(dev, valid.layout)
        buffers == vertex_buffer_layouts(self)
        vs      == get_vertex(shaders, self.name)
        dev2    == [dev1 EXCEPT !.log = Append(@, Call("get_vertex", Some(vs.ok)))]
        fs      == get_fragment(shaders, self.name)
        dev3    == [dev2 EXCEPT !.log = Append(@, Call("get_fragment", Some(fs.ok)))]
    IN  IF ~vs.ok THEN [result |-> Err(vs.value), dev |-> dev2]
        ELSE IF ~fs.ok THEN [result |-> Err(fs.value), dev |-> dev3]
        ELSE LET made == create_render_pipeline(
                             dev3,
                             [label   |-> self.name \o " Pipeline",
                              buffers |-> buffers],
                             valid.pipeline)
             IN  [result |-> Ok(made.pipeline), dev |-> made.dev]

(***************************************************************************)
(* DrawablePipeline::create_pipeline, in its two halves: everything up to  *)
(* the .await on the popped scope, and the commit after it.                *)
(***************************************************************************)
\* Mutant: an Err from the attempt is propagated with ?, past the pop.
create_pipeline_begin_propagating(self, dev, shaders, valid) ==
    LET pushed    == push_error_scope(dev, "Validation")
        attempt   == try_create_pipeline(self, pushed, shaders, valid)
        popped    == pop_error_scope(attempt.dev)
    IN  IF ~attempt.result.ok
        THEN [dev    |-> attempt.dev,
              locals |-> [pipeline |-> attempt.result, validation_error |-> None]]
        ELSE [dev    |-> popped.dev,
              locals |-> [pipeline         |-> attempt.result,
                          validation_error |-> popped.error]]

create_pipeline_begin(self, dev, shaders, valid) ==
    LET pushed    == push_error_scope(dev, "Validation")
        attempt   == try_create_pipeline(self, pushed, shaders, valid)
        popped    == pop_error_scope(attempt.dev)
    IN  [dev    |-> popped.dev,
         locals |-> [pipeline         |-> attempt.result,
                     validation_error |-> popped.error]]

\* Mutant: commits whatever the attempt returned, diagnostic or not.
create_pipeline_commit_ignoring_diagnostic(self, locals) ==
    IF locals.pipeline.ok
    THEN [self EXCEPT !.render_pipeline = Some(locals.pipeline.value)]
    ELSE self

\* Mutant: a failed attempt clears the pipeline.
create_pipeline_commit_clearing(self, locals) ==
    IF locals.validation_error = None /\ locals.pipeline.ok
    THEN [self EXCEPT !.render_pipeline = Some(locals.pipeline.value)]
    ELSE [self EXCEPT !.render_pipeline = None]

\* Mutant: a successful commit also rebuilds the bind group.
create_pipeline_commit_rebinding(self, locals) ==
    IF locals.validation_error = None /\ locals.pipeline.ok
    THEN [self EXCEPT !.render_pipeline = Some(locals.pipeline.value),
                      !.bind_group.entries = bind_group_entries(self.drawable)]
    ELSE self

create_pipeline_commit(self, locals) ==
    IF locals.validation_error = None
    THEN IF locals.pipeline.ok
         THEN [self EXCEPT !.render_pipeline = Some(locals.pipeline.value)]
         ELSE self
    ELSE self

\* Whether the device finds fault with an attempt: with its pipeline layout,
\* or with the render pipeline when the attempt gets as far as creating one.
DeviceRaises(self, shaders, valid) ==
    \/ ~valid.layout
    \/ /\ get_vertex(shaders, self.name).ok
       /\ get_fragment(shaders, self.name).ok
       /\ ~valid.pipeline

CreatePipelineBegin(d) ==
    /\ ~panicked
    /\ Registered(d)
    /\ pending[d] = None
    /\ next_pipeline <= MaxPipelines
    /\ \E shaders \in ShaderProviders(DP(d).name), valid \in Validations :
          LET begun == create_pipeline_begin(
                           DP(d),
                           [scopes |-> error_scopes, next |-> next_pipeline, log |-> <<>>],
                           shaders, valid)
          IN  /\ error_scopes' = begun.dev.scopes
              /\ next_pipeline' = begun.dev.next
              /\ call_log' = begun.dev.log
              /\ pending' = [pending EXCEPT ![d] = Some(begun.locals)]
              /\ raised' = [raised EXCEPT ![d] = DeviceRaises(DP(d), shaders, valid)]
    /\ UNCHANGED <<drawables, pass_log, panicked>>
    /\ UNCHANGED <<winit_vars, renderer, offscreen_vars>>

CreatePipelineCommit(d) ==
    /\ ~panicked
    /\ Registered(d)
    /\ pending[d] # None
    /\ drawables' = [drawables EXCEPT
                       ![d] = Some(create_pipeline_commit(DP(d), Unwrap(pending[d])))]
    /\ pending' = [pending EXCEPT ![d] = None]
    /\ UNCHANGED <<error_scopes, next_pipeline, call_log, pass_log, panicked,
                   raised>>
    /\ UNCHANGED <<winit_vars, renderer, offscreen_vars>>

(***************************************************************************)
(* DrawablePipeline::draw                                                  *)
(***************************************************************************)
PassCall(op, args) == [on |-> "render_pass", op |-> op, args |-> args]
DrawableCall(name) == [on |-> "drawable", op |-> "draw", args |-> <<name>>]

UniversalBindGroup == [label |-> "universal bind group", entries |-> <<>>]

\* The references a drawable adds while it lives: a bound resource (an
\* atlas grows by a texture) or a vertex stream.
GrownReferences(id) ==
    {r \in ReferenceImpls(id) :
        (r.has_layout = r.has_entry) /\ (r.has_layout # r.has_vertex)}

\* What a drawable's own draw can do: emit commands into the pass and,
\* holding &mut self, change the reference set it exposes.
DrawableDrawOutcomes(drawable) ==
    [commands : {<<>>, <<PassCall("draw", <<"vertices", "instances">>)>>},
     drawable : {drawable} \cup
                {[drawable EXCEPT !.references = Append(@, r)] :
                    r \in IF Len(drawable.references) < MaxRefs
                          THEN GrownReferences(Len(drawable.references) + 1)
                          ELSE {}}]

\* Mutant: the two bind groups are bound at each other's index.
DrawablePipeline_draw_groups_swapped(self, universal_bind_group, outcome) ==
    IF self.render_pipeline = None
    THEN [panic |-> TRUE, log |-> <<>>, self |-> self]
    ELSE [panic |-> FALSE,
          log   |-> << PassCall("set_pipeline", <<Unwrap(self.render_pipeline)>>),
                       PassCall("set_push_constants", <<"ShaderStages::all", 0, "constants">>),
                       PassCall("set_bind_group", <<0, universal_bind_group>>),
                       PassCall("set_bind_group", <<1, self.bind_group>>),
                       DrawableCall(self.name) >>
                    \o outcome.commands,
          self  |-> [self EXCEPT !.drawable = outcome.drawable]]

\* Mutant: a missing pipeline is skipped over instead of unwrapped.
DrawablePipeline_draw_unchecked(self, universal_bind_group, outcome) ==
    [panic |-> FALSE,
     log   |-> (IF self.render_pipeline = None THEN <<>>
                ELSE << PassCall("set_pipeline", <<Unwrap(self.render_pipeline)>>) >>)
               \o << PassCall("set_push_constants", <<"ShaderStages::all", 0, "constants">>),
                     PassCall("set_bind_group", <<0, self.bind_group>>),
                     PassCall("set_bind_group", <<1, universal_bind_group>>),
                     DrawableCall(self.name) >>
               \o outcome.commands,
     self  |-> [self EXCEPT !.drawable = outcome.drawable]]

\* Returns [panic, log, self]: whether unwrap() panicked, the calls made in
\* order, and the DrawablePipeline afterwards.
DrawablePipeline_draw(self, universal_bind_group, outcome) ==
    IF self.render_pipeline = None
    THEN [panic |-> TRUE, log |-> <<>>, self |-> self]
    ELSE [panic |-> FALSE,
          log   |-> << PassCall("set_pipeline", <<Unwrap(self.render_pipeline)>>),
                       PassCall("set_push_constants", <<"ShaderStages::all", 0, "constants">>),
                       PassCall("set_bind_group", <<0, self.bind_group>>),
                       PassCall("set_bind_group", <<1, universal_bind_group>>),
                       DrawableCall(self.name) >>
                    \o outcome.commands,
          self  |-> [self EXCEPT !.drawable = outcome.drawable]]

Draw(d) ==
    /\ ~panicked
    /\ Registered(d)
    /\ pending[d] = None
    /\ \E outcome \in DrawableDrawOutcomes(DP(d).drawable) :
          LET drawn == DrawablePipeline_draw(DP(d), UniversalBindGroup, outcome)
          IN  /\ panicked' = drawn.panic
              /\ pass_log' = drawn.log
              /\ drawables' = [drawables EXCEPT ![d] = Some(drawn.self)]
    /\ UNCHANGED <<pending, error_scopes, next_pipeline, call_log, raised>>
    /\ UNCHANGED <<winit_vars, renderer, offscreen_vars>>

(***************************************************************************)
(* WinitRenderer.  A WinitRenderer value is [surface, surface_config,      *)
(* window_initializing, renderer, next_surface]; a Surface is its id and   *)
(* the configuration it was last given; the Renderer is seen through its   *)
(* width and height.  Each operation returns the value after it and the    *)
(* calls it made on the surface, the renderer and the window.              *)
(***************************************************************************)
Sizes == 0..MaxSize

\* What get_capabilities lists first for a surface: formats[0], alpha_modes[0].
SurfaceCapabilities ==
    {[format |-> "Bgra8UnormSrgb", alpha_mode |-> "Opaque"],
     [format |-> "Rgba8UnormSrgb", alpha_mode |-> "PreMultiplied"]}

StartCauses == {"Init", "Poll"}

WinitCall(on, op, args) == [on |-> on, op |-> op, args |-> args]

\* surface.configure(&device, &config): panics when the configuration has a
\* zero width or height.  None stands for the panic, Some for the surface as
\* configured.
Surface_configure(surf, config) ==
    IF config.width = 0 \/ config.height = 0
    THEN None
    ELSE Some([surf EXCEPT !.config = config])

\* Renderer::resize: takes the new target dimensions.
Renderer_resize(r, new_width, new_height) ==
    [r EXCEPT !.width = new_width, !.height = new_height]

\* WinitRenderer::new for a window of the given inner size.  The renderer is
\* built first, then the new surface is configured: when that panics new
\* returns no WinitRenderer.
WinitRenderer_new(size, caps) ==
    LET surface_config_ == [format     |-> caps.format,
                            width      |-> size.width,
                            height     |-> size.height,
                            alpha_mode |-> caps.alpha_mode]
        configured == Surface_configure([id |-> 1, config |-> None],
                                        surface_config_)
        calls == <<WinitCall("surface", "configure", <<1, surface_config_>>)>>
    IN  IF configured = None
        THEN [panic |-> TRUE, calls |-> calls]
        ELSE [panic |-> FALSE,
              self  |-> [surface             |-> configured,
                         surface_config      |-> surface_config_,
                         window_initializing |-> FALSE,
                         renderer            |-> [width  |-> size.width,
                                                  height |-> size.height],
                         next_surface        |-> 2],
              calls |-> calls]

update_surface(self, surf, caps) ==
    LET config == [self.surface_config EXCEPT !.format = caps.format,
                                              !.alpha_mode = caps.alpha_mode]
        configured == Surface_configure(surf, config)
    IN  [self  |-> IF configured = None
                   THEN [self EXCEPT !.surface_config = config]
                   ELSE [self EXCEPT !.surface_config = config,
                                     !.surface = configured],
         calls |-> <<WinitCall("surface", "configure", <<surf.id, config>>)>>,
         panic |-> configured = None]

clear_surface(self) == [self EXCEPT !.surface = None]

\* Mutant: the renderer is resized whatever the new size.
WinitRenderer_resize_unguarded(self, new_width, new_height) ==
    LET config == [self.surface_config EXCEPT !.width = new_width,
                                              !.height = new_height]
        self1  == [self EXCEPT !.surface_config = config]
    IN  [self  |-> [self1 EXCEPT !.renderer = Renderer_resize(@, new_width, new_height)],
         calls |-> <<WinitCall("renderer", "resize", <<new_width, new_height>>)>>]

WinitRenderer_resize(self, new_width, new_height) ==
    LET config == [self.surface_config EXCEPT !.width = new_width,
                                              !.height = new_height]
        self1  == [self EXCEPT !.surface_config = config]
    IN  IF new_width # 0 /\ new_height # 0
        THEN LET configured ==
                     IF self1.surface # None
                     THEN [self  |-> [self1 EXCEPT !.surface =
                                         Surface_configure(Unwrap(@), config)],
                           calls |-> <<WinitCall("surface", "configure",
                                                 <<Unwrap(self1.surface).id, config>>)>>]
                     ELSE [self |-> self1, calls |-> <<>>]
             IN  [self  |-> [configured.self EXCEPT !.renderer =
                                Renderer_resize(@, new_width, new_height)],
                  calls |-> Append(configured.calls,
                                   WinitCall("renderer", "resize",
                                             <<new_width, new_height>>))]
        ELSE [self |-> self1, calls |-> <<>>]

\* The events handle_event tells apart, and one of those it does not.
NewEventsEvent(cause) == [type |-> "NewEvents", start_cause |-> cause]
ResumedEvent == [type |-> "Resumed"]
SuspendedEvent == [type |-> "Suspended"]
ResizedEvent(w, h) == [type |-> "Resized", width |-> w, height |-> h]
AboutToWaitEvent == [type |-> "AboutToWait"]

\* Mutant: window_initializing, once set by an Init, is never cleared.
handle_event_sticky_init(self, event, created, caps) ==
    IF event.type = "NewEvents"
    THEN [self  |-> [self EXCEPT !.window_initializing =
                        @ \/ (event.start_cause = "Init")],
          calls |-> <<>>, panic |-> FALSE]
    ELSE IF event.type = "Resumed"
    THEN IF ~created
         THEN [self |-> self, calls |-> <<>>, panic |-> TRUE]
         ELSE LET surf    == [id |-> self.next_surface, config |-> None]
                  updated == update_surface(
                                 [self EXCEPT !.next_surface = @ + 1], surf, caps)
              IN  IF updated.panic
                  THEN [self |-> updated.self, calls |-> updated.calls,
                        panic |-> TRUE]
                  ELSE [self  |-> updated.self,
                        calls |-> Append(updated.calls,
                                         WinitCall("window", "request_redraw", <<>>)),
                        panic |-> FALSE]
    ELSE IF event.type = "Suspended"
    THEN [self |-> clear_surface(self), calls |-> <<>>, panic |-> FALSE]
    ELSE IF event.type = "Resized"
    THEN IF self.window_initializing
         THEN [self |-> self, calls |-> <<>>, panic |-> FALSE]
         ELSE LET resized == WinitRenderer_resize(self, event.width, event.height)
              IN  [self  |-> resized.self,
                   calls |-> Append(resized.calls,
                                    WinitCall("window", "request_redraw", <<>>)),
                   panic |-> FALSE]
    ELSE [self |-> self, calls |-> <<>>, panic |-> FALSE]

\* handle_event.  created: whether create_surface returns Ok; caps: the
\* capabilities of the surface it creates.
handle_event(self, event, created, caps) ==
    IF event.type = "NewEvents"
    THEN [self  |-> [self EXCEPT !.window_initializing = (event.start_cause = "Init")],
          calls |-> <<>>, panic |-> FALSE]
    ELSE IF event.type = "Resumed"
    THEN IF ~created
         THEN [self |-> self, calls |-> <<>>, panic |-> TRUE]
         ELSE LET surf    == [id |-> self.next_surface, config |-> None]
                  updated == update_surface(
                                 [self EXCEPT !.next_surface = @ + 1], surf, caps)
              IN  IF updated.panic
                  THEN [self |-> updated.self, calls |-> updated.calls,
                        panic |-> TRUE]
                  ELSE [self  |-> updated.self,
                        calls |-> Append(updated.calls,
                                         WinitCall("window", "request_redraw", <<>>)),
                        panic |-> FALSE]
    ELSE IF event.type = "Suspended"
    THEN [self |-> clear_surface(self), calls |-> <<>>, panic |-> FALSE]
    ELSE IF event.type = "Resized"
    THEN IF self.window_initializing
         THEN [self |-> self, calls |-> <<>>, panic |-> FALSE]
         ELSE LET resized == WinitRenderer_resize(self, event.width, event.height)
              IN  [self  |-> resized.self,
                   calls |-> Append(resized.calls,
                                    WinitCall("window", "request_redraw", <<>>)),
                   panic |-> FALSE]
    ELSE [self |-> self, calls |-> <<>>, panic |-> FALSE]

\* What surface.get_current_texture() can return.
Acquisitions == {"Ok", "Timeout", "Outdated", "Lost", "OutOfMemory"}

\* WinitRenderer::draw, given what get_current_texture returns.
\* result is the value returned, None when draw panics instead.
WinitRenderer_draw(self, acquired) ==
    IF self.surface = None
    THEN [self |-> self, calls |-> <<>>, result |-> Some(TRUE), panic |-> FALSE]
    ELSE LET surf == Unwrap(self.surface)
             got  == WinitCall("surface", "get_current_texture", <<surf.id, acquired>>)
         IN  IF acquired = "Ok"
             THEN [self   |-> self,
                   calls  |-> <<got,
                                WinitCall("renderer", "render", <<surf.id>>),
                                WinitCall("frame", "present", <<surf.id>>)>>,
                   result |-> Some(TRUE), panic |-> FALSE]
             ELSE IF acquired = "Lost"
             THEN LET configured == Surface_configure(surf, self.surface_config)
                      calls_     == <<got,
                                      WinitCall("surface", "configure",
                                                <<surf.id, self.surface_config>>)>>
                  IN  IF configured = None
                      THEN [self |-> self, calls |-> calls_,
                            result |-> None, panic |-> TRUE]
                      ELSE [self   |-> [self EXCEPT !.surface = configured],
                            calls  |-> calls_,
                            result |-> Some(FALSE), panic |-> FALSE]
             ELSE [self |-> self, calls |-> <<got>>, result |-> Some(FALSE),
                   panic |-> FALSE]

\* The WinitRenderer held in the variables, and the step that replaces it.
WinitSelf ==
    [surface             |-> surface,
     surface_config      |-> surface_config,
     window_initializing |-> window_initializing,
     renderer            |-> renderer,
     next_surface        |-> next_surface]

WinitBecomes(self) ==
    /\ surface' = self.surface
    /\ surface_config' = self.surface_config
    /\ window_initializing' = self.window_initializing
    /\ renderer' = self.renderer
    /\ next_surface' = self.next_surface

drawable_vars == <<drawables, pending, error_scopes, next_pipeline, call_log,
                   pass_log, raised>>

HandleEvent(event, created, caps) ==
    LET handled == handle_event(WinitSelf, event, created, caps)
    IN  /\ ~panicked
        /\ panicked' = handled.panic
        /\ WinitBecomes(handled.self)
        /\ winit_log' = [input |-> event, calls |-> handled.calls, result |-> None]
        /\ UNCHANGED <<drawable_vars, offscreen_vars>>

NewEvents ==
    \E cause \in StartCauses :
        /\ HandleEvent(NewEventsEvent(cause), TRUE, CHOOSE c \in SurfaceCapabilities : TRUE)
        /\ start_cause' = Some(cause)

Resumed ==
    /\ next_surface <= MaxSurfaces
    /\ \E created \in BOOLEAN, caps \in SurfaceCapabilities :
          HandleEvent(ResumedEvent, created, caps)
    /\ UNCHANGED start_cause

Suspended ==
    /\ HandleEvent(SuspendedEvent, TRUE, CHOOSE c \in SurfaceCapabilities : TRUE)
    /\ UNCHANGED start_cause

Resized ==
    /\ \E w \in Sizes, h \in Sizes :
          HandleEvent(ResizedEvent(w, h), TRUE, CHOOSE c \in SurfaceCapabilities : TRUE)
    /\ UNCHANGED start_cause

OtherEvent ==
    /\ HandleEvent(AboutToWaitEvent, TRUE, CHOOSE c \in SurfaceCapabilities : TRUE)
    /\ UNCHANGED start_cause

\* Renderer::add_drawable: the renderer keeps its drawables in the order
\* they were added and builds the DrawablePipeline of the new one.
Unregistered(ds) == {d \in Drawables : ds[d] = None}

Renderer_add_drawable(ds) ==
    LET d == CHOOSE d \in Unregistered(ds) : \A e \in Unregistered(ds) : d <= e
    IN  [ds EXCEPT ![d] = Some(DrawablePipeline_new(BatchInstance(d)))]

AddDrawableInput == [type |-> "add_drawable"]

\* WinitRenderer::add_drawable and with_drawable, and add_default_drawables
\* and with_default_drawables for each drawable of the default set.
WinitAddDrawable ==
    /\ ~panicked
    /\ Unregistered(drawables) # {}
    /\ drawables' = Renderer_add_drawable(drawables)
    /\ winit_log' = [input |-> AddDrawableInput, calls |-> <<>>, result |-> None]
    /\ UNCHANGED <<pending, error_scopes, next_pipeline, call_log, pass_log,
                   raised, surface, surface_config, window_initializing,
                   start_cause, next_surface, renderer, offscreen_vars, panicked>>

DrawInput == [type |-> "draw"]

WinitDraw ==
    /\ ~panicked
    /\ \E acquired \in Acquisitions :
          LET drawn == WinitRenderer_draw(WinitSelf, acquired)
          IN  /\ WinitBecomes(drawn.self)
              /\ winit_log' = [input |-> DrawInput, calls |-> drawn.calls,
                               result |-> drawn.result]
              /\ panicked' = drawn.panic
    /\ UNCHANGED <<drawable_vars, offscreen_vars, start_cause>>

(***************************************************************************)
(* OffscreenRenderer::draw.  The row layout of the readback buffer, the    *)
(* image operations, and the device as draw uses it: work submitted to the *)
(* queue, a mapping requested with a callback, and the oneshot channel the *)
(* callback sends on.  A callback runs only inside device.poll.            *)
(***************************************************************************)
\* std::mem::size_of::<u32>()
u32_size == 4
\* wgpu::COPY_BYTES_PER_ROW_ALIGNMENT
COPY_BYTES_PER_ROW_ALIGNMENT == 256

bytes_per_row(width) == u32_size * width

\* Mutant: an aligned row gets no padding.
padding_to_alignment(width) ==
    (COPY_BYTES_PER_ROW_ALIGNMENT
        - (bytes_per_row(width) % COPY_BYTES_PER_ROW_ALIGNMENT))
      % COPY_BYTES_PER_ROW_ALIGNMENT

padding(width) ==
    COPY_BYTES_PER_ROW_ALIGNMENT
        - (bytes_per_row(width) % COPY_BYTES_PER_ROW_ALIGNMENT)

padded_bytes_per_row(width) == bytes_per_row(width) + padding(width)

padded_width(width) == padded_bytes_per_row(width) \div u32_size

output_buffer_size(width, height) == padded_bytes_per_row(width) * height

\* ImageBuffer::<Rgba<u8>, _>::from_raw: None when the container is too
\* small for width x height pixels of four bytes.
ImageBuffer_from_raw(width, height, data_len) ==
    IF 4 * width * height <= data_len
    THEN Some([width |-> width, height |-> height])
    ELSE None

Min(a, b) == IF a <= b THEN a ELSE b

\* crop_imm(image, x, y, width, height).to_image(): the view is clamped to
\* the image.
crop_imm(image, x, y, width, height) ==
    LET x0 == Min(x, image.width)
        y0 == Min(y, image.height)
    IN  [width  |-> Min(width, image.width - x0),
         height |-> Min(height, image.height - y0)]

\* Mutant: the device is polled before the mapping is requested.
DrawSteps_polling_first ==
    <<"create_texture", "render", "create_buffer", "submit",
      "poll", "map_async", "await", "get_mapped_range", "crop">>

\* The statements of draw that act on the device, the channel or the
\* image, in program order.
DrawSteps ==
    <<"create_texture", "render", "create_buffer", "submit",
      "map_async", "poll", "await", "get_mapped_range", "crop">>

FreshLocals == [texture |-> None, layout |-> None, data |-> None, image |-> None]
FreshGpu == [submitted |-> FALSE, completed |-> FALSE, map_requested |-> FALSE,
             mapped |-> FALSE, channel |-> None]

MapResults == {"Ok", "Err"}

\* One statement of draw, run on the locals and the device state; r is the
\* Renderer, map_result what the mapping comes to when the device gets to
\* it.  blocked: the statement cannot complete in this state.
draw_step(step, locals, dev, r, map_result) ==
    LET same == [locals |-> locals, gpu |-> dev, panic |-> FALSE, blocked |-> FALSE]
    IN  IF step = "create_texture"
        THEN [same EXCEPT !.locals.texture =
                 Some([width |-> r.width, height |-> r.height])]
        ELSE IF step = "render"
        THEN same
        ELSE IF step = "create_buffer"
        THEN [same EXCEPT !.locals.layout =
                 Some([bytes_per_row        |-> bytes_per_row(r.width),
                       padding              |-> padding(r.width),
                       padded_bytes_per_row |-> padded_bytes_per_row(r.width),
                       padded_width         |-> padded_width(r.width),
                       output_buffer_size   |-> output_buffer_size(r.width, r.height)])]
        ELSE IF step = "submit"
        THEN [same EXCEPT !.gpu.submitted = TRUE]
        ELSE IF step = "map_async"
        THEN [same EXCEPT !.gpu.map_requested = TRUE]
        ELSE IF step = "poll"
        THEN IF dev.map_requested /\ dev.channel = None
             THEN [same EXCEPT !.gpu.completed = dev.submitted,
                               !.gpu.mapped = (map_result = "Ok"),
                               !.gpu.channel = Some(map_result)]
             ELSE [same EXCEPT !.gpu.completed = dev.submitted]
        ELSE IF step = "await"
        THEN IF dev.channel = None
             THEN [same EXCEPT !.blocked = TRUE]
             ELSE IF Unwrap(dev.channel) = "Ok" THEN same
             ELSE [same EXCEPT !.panic = TRUE]
        ELSE IF step = "get_mapped_range"
        THEN IF dev.mapped
             THEN [same EXCEPT !.locals.data =
                      Some(Unwrap(locals.layout).output_buffer_size)]
             ELSE [same EXCEPT !.panic = TRUE]
        ELSE LET padded_image == ImageBuffer_from_raw(
                                     Unwrap(locals.layout).padded_width,
                                     r.height, Unwrap(locals.data))
             IN  IF padded_image = None
                 THEN [same EXCEPT !.panic = TRUE]
                 ELSE [same EXCEPT !.locals.image =
                          Some(crop_imm(Unwrap(padded_image), 0, 0, r.width, r.height))]

OffscreenStep(step) ==
    /\ ~panicked
    /\ offscreen_pc < Len(DrawSteps)
    /\ DrawSteps[offscreen_pc + 1] = step
    /\ \E map_result \in MapResults :
          LET done == draw_step(step, offscreen_locals, gpu, renderer, map_result)
          IN  /\ ~done.blocked
              /\ offscreen_locals' = done.locals
              /\ gpu' = done.gpu
              /\ panicked' = done.panic
    /\ offscreen_pc' = offscreen_pc + 1
    /\ offscreen_log' = Append(offscreen_log, step)
    /\ UNCHANGED <<drawable_vars, winit_vars, renderer>>

\* draw returns its image; the next draw starts from fresh locals, a new
\* buffer and a new channel.
OffscreenReturn ==
    /\ ~panicked
    /\ offscreen_pc = Len(DrawSteps)
    /\ offscreen_pc' = 0
    /\ offscreen_locals' = FreshLocals
    /\ gpu' = FreshGpu
    /\ offscreen_log' = <<>>
    /\ UNCHANGED <<drawable_vars, winit_vars, renderer, panicked>>

\* draw, resize and add_drawable all take &mut self: resize and
\* add_drawable run only when no draw is under way, that is before a draw
\* has taken its first step or after it has taken its last.  Whatever the
\* last draw left behind is gone by then.
NoDrawRunning == offscreen_pc \in {0, Len(DrawSteps)}

DrawLeftBehind ==
    /\ offscreen_pc' = 0
    /\ offscreen_locals' = FreshLocals
    /\ gpu' = FreshGpu
    /\ offscreen_log' = <<>>

\* OffscreenRenderer::resize
OffscreenRenderer_resize(r, new_width, new_height) ==
    Renderer_resize(r, new_width, new_height)

OffscreenResize ==
    /\ ~panicked
    /\ NoDrawRunning
    /\ \E new_width \in 0..MaxWidth, new_height \in 0..MaxHeight :
          renderer' = OffscreenRenderer_resize(renderer, new_width, new_height)
    /\ DrawLeftBehind
    /\ UNCHANGED <<drawable_vars, winit_vars, panicked>>

\* OffscreenRenderer::add_drawable and with_drawable, and
\* add_default_drawables and with_default_drawables for each drawable of
\* the default set: the renderer registers one more drawable, building its
\* DrawablePipeline.
OffscreenAddDrawable ==
    /\ ~panicked
    /\ NoDrawRunning
    /\ Unregistered(drawables) # {}
    /\ drawables' = Renderer_add_drawable(drawables)
    /\ DrawLeftBehind
    /\ UNCHANGED <<pending, error_scopes, next_pipeline, call_log, pass_log,
                   raised, winit_vars, renderer, panicked>>

(***************************************************************************)
(* The life of one DrawablePipeline: Spec follows the DrawablePipeline of  *)
(* the first registered drawable through new, any number of                *)
(* create_pipeline calls and any number of draws.  The device may already  *)
(* hold an error scope opened by the caller.  A draw needs &mut self, so   *)
(* it cannot run while a create_pipeline future of the same                *)
(* DrawablePipeline is alive.                                              *)
(***************************************************************************)
OuterScopes == {<<>>, <<[filter |-> "Validation", error |-> None]>>}

\* No WinitRenderer has been built.
WinitIdle ==
    /\ surface = None
    /\ surface_config = <<>>
    /\ window_initializing = FALSE
    /\ start_cause = None
    /\ next_surface = 1
    /\ winit_log = <<>>

\* No OffscreenRenderer::draw is running.
OffscreenIdle ==
    /\ offscreen_pc = 0
    /\ offscreen_locals = <<>>
    /\ gpu = <<>>
    /\ offscreen_log = <<>>

\* No window backend and no offscreen draw takes part.
BackendsIdle ==
    /\ WinitIdle
    /\ OffscreenIdle
    /\ renderer = [width |-> 1, height |-> 1]

Init ==
    /\ drawables = [d \in Drawables |-> None]
    /\ pending = [d \in Drawables |-> None]
    /\ error_scopes \in OuterScopes
    /\ next_pipeline = 1
    /\ call_log = <<>>
    /\ pass_log = <<>>
    /\ panicked = FALSE
    /\ raised = [d \in Drawables |-> FALSE]
    /\ BackendsIdle

Next ==
    \/ New(1)
    \/ CreatePipelineBegin(1)
    \/ CreatePipelineCommit(1)
    \/ Draw(1)

Spec == Init /\ [][Next]_vars

(***************************************************************************)
(* A batch of create_pipeline futures, one per registered drawable, driven *)
(* on the render thread: between the halves of one call, any half of any   *)
(* other call may run.                                                     *)
(***************************************************************************)
InitBatch ==
    /\ drawables = [d \in Drawables |-> Some(DrawablePipeline_new(BatchInstance(d)))]
    /\ pending = [d \in Drawables |-> None]
    /\ error_scopes \in OuterScopes
    /\ next_pipeline = 1
    /\ call_log = <<>>
    /\ pass_log = <<>>
    /\ panicked = FALSE
    /\ raised = [d \in Drawables |-> FALSE]
    /\ BackendsIdle

NextBatch ==
    \E d \in Drawables :
        \/ CreatePipelineBegin(d)
        \/ CreatePipelineCommit(d)

SpecBatch == InitBatch /\ [][NextBatch]_vars

(***************************************************************************)
(* A WinitRenderer, built for a window of any size, receiving window       *)
(* events and draw calls in any order.  Its renderer holds one drawable    *)
(* whose pipeline is installed.                                            *)
(***************************************************************************)
InstalledPipeline(d) ==
    LET self  == DrawablePipeline_new(BatchInstance(d))
        begun == create_pipeline_begin(
                     self, [scopes |-> <<>>, next |-> 1, log |-> <<>>],
                     [vertex |-> {self.name}, fragment |-> {self.name}],
                     [layout |-> TRUE, pipeline |-> TRUE])
    IN  create_pipeline_commit(self, begun.locals)

InitWinit ==
    /\ drawables = [d \in Drawables |->
                       IF d = 1 THEN Some(InstalledPipeline(d)) ELSE None]
    /\ pending = [d \in Drawables |-> None]
    /\ error_scopes = <<>>
    /\ next_pipeline = 2
    /\ call_log = <<>>
    /\ pass_log = <<>>
    /\ raised = [d \in Drawables |-> FALSE]
    /\ \E w \in Sizes, h \in Sizes, caps \in SurfaceCapabilities :
          LET built == WinitRenderer_new([width |-> w, height |-> h], caps)
              \* With no WinitRenderer returned the program is gone: the
              \* variables hold what new had built when it panicked.
              self  == IF built.panic
                       THEN [surface             |-> None,
                             surface_config      |-> built.calls[1].args[2],
                             window_initializing |-> FALSE,
                             renderer            |-> [width |-> w, height |-> h],
                             next_surface        |-> 2]
                       ELSE built.self
          IN  /\ panicked = built.panic
              /\ surface = self.surface
              /\ surface_config = self.surface_config
              /\ window_initializing = self.window_initializing
              /\ renderer = self.renderer
              /\ next_surface = self.next_surface
              /\ winit_log = [input |-> [type |-> "new"], calls |-> built.calls,
                              result |-> None]
    /\ start_cause = None
    /\ OffscreenIdle

NextWinit ==
    \/ NewEvents
    \/ Resumed
    \/ Suspended
    \/ Resized
    \/ OtherEvent
    \/ WinitDraw
    \/ WinitAddDrawable

SpecWinit == InitWinit /\ [][NextWinit]_vars

(***************************************************************************)
(* An OffscreenRenderer of any size within the bounds, drawn any number of *)
(* times, and resized and given drawables between draws.                   *)
(* SpecOffscreenFair adds that the thread running a draw keeps running it  *)
(* whenever its next statement can complete.                               *)
(***************************************************************************)
InitOffscreen ==
    /\ drawables = [d \in Drawables |->
                       IF d = 1 THEN Some(InstalledPipeline(d)) ELSE None]
    /\ pending = [d \in Drawables |-> None]
    /\ error_scopes = <<>>
    /\ next_pipeline = 2
    /\ call_log = <<>>
    /\ pass_log = <<>>
    /\ panicked = FALSE
    /\ raised = [d \in Drawables |-> FALSE]
    /\ WinitIdle
    /\ renderer \in [width : 0..MaxWidth, height : 0..MaxHeight]
    /\ offscreen_pc = 0
    /\ offscreen_locals = FreshLocals
    /\ gpu = FreshGpu
    /\ offscreen_log = <<>>

NextOffscreen ==
    \/ \E i \in 1..Len(DrawSteps) : OffscreenStep(DrawSteps[i])
    \/ OffscreenReturn
    \/ OffscreenResize
    \/ OffscreenAddDrawable

SpecOffscreen == InitOffscreen /\ [][NextOffscreen]_vars

\* Whether and when draw is called, and what is called between draws, is
\* up to the caller; a draw that has started keeps being run.
DrawRuns ==
    /\ offscreen_pc > 0
    /\ \E i \in 1..Len(DrawSteps) : OffscreenStep(DrawSteps[i])

SpecOffscreenFair == SpecOffscreen /\ WF_vars(DrawRuns)

(***************************************************************************)
(* Vocabulary of the properties below.                                     *)
(***************************************************************************)
\* Steps of drawable d, told apart by what they do to its future.
BeginStep(d) == Registered(d) /\ pending[d] = None /\ pending'[d] # None
CommitStep(d) == Registered(d) /\ pending[d] # None /\ pending'[d] = None
NewStep(d) == drawables[d] = None /\ drawables'[d] # None

RenderPipelineBefore(d) == drawables[d][1].render_pipeline
RenderPipelineAfter(d) == drawables'[d][1].render_pipeline

\* The attempt whose locals these are took no diagnostic and returned Ok.
Succeeded(locals) == locals.validation_error = None /\ locals.pipeline.ok

OpsOf(log) == [i \in 1..Len(log) |-> log[i].op]
CallsTo(log, op) == {i \in 1..Len(log) : log[i].op = op}

\* The most recent create_pipeline got a pipeline object from the device.
LastAttemptCreated == CallsTo(call_log, "create_render_pipeline") # {}
LastAttemptPipeline ==
    call_log[CHOOSE i \in CallsTo(call_log, "create_render_pipeline") : TRUE].ret
\* The scope popped by the most recent create_pipeline held a diagnostic.
LastAttemptDiagnostic ==
    /\ call_log # <<>>
    /\ call_log[Len(call_log)].op = "pop_error_scope"
    /\ call_log[Len(call_log)].ret # None

(***************************************************************************)
(* C1: create_pipeline installs the pipeline its attempt created if and    *)
(* only if the popped error scope held no diagnostic and the attempt       *)
(* returned Ok; in every other case render_pipeline stays exactly what it  *)
(* was.  The locals the commit reads are the popped scope's content and    *)
(* the attempt's result.                                                   *)
(***************************************************************************)
C1_LocalsAreTheAttempt ==
    \A d \in Drawables :
        pending[d] # None =>
            LET locals == Unwrap(pending[d])
                last   == call_log[Len(call_log)]
            IN  /\ last.op = "pop_error_scope"
                /\ last.ret = locals.validation_error
                /\ locals.pipeline.ok <=> LastAttemptCreated
                /\ locals.pipeline.ok =>
                      Some(locals.pipeline.value) = LastAttemptPipeline

C1_InstallOnlyOnSuccess ==
    /\ []C1_LocalsAreTheAttempt
    /\ [][\A d \in Drawables :
            CommitStep(d) =>
                IF Succeeded(Unwrap(pending[d]))
                THEN /\ RenderPipelineAfter(d) = Some(Unwrap(pending[d]).pipeline.value)
                     /\ RenderPipelineAfter(d) # RenderPipelineBefore(d)
                ELSE RenderPipelineAfter(d) = RenderPipelineBefore(d)]_vars

\* A pipeline object came back Ok while a diagnostic was captured, and the
\* completed call discarded it, keeping the pipeline installed earlier.
C1_Witness ==
    /\ Registered(1) /\ pending[1] = None /\ ready(1)
    /\ LastAttemptCreated /\ LastAttemptDiagnostic
    /\ DP(1).render_pipeline # LastAttemptPipeline

(***************************************************************************)
(* C2: readiness is monotone.  Once a pipeline is installed no step makes  *)
(* the DrawablePipeline not ready; a failing attempt leaves the installed  *)
(* pipeline in place, and that pipeline is the one a draw binds.           *)
(***************************************************************************)
C2_ReadinessMonotone ==
    [][\A d \in Drawables :
          (Registered(d) /\ ready(d)) =>
              /\ drawables'[d] # None
              /\ RenderPipelineAfter(d) # None
              /\ (CommitStep(d) /\ ~Succeeded(Unwrap(pending[d]))) =>
                    RenderPipelineAfter(d) = RenderPipelineBefore(d)
              /\ Draw(d) =>
                    /\ ~panicked'
                    /\ RenderPipelineAfter(d) = RenderPipelineBefore(d)
                    /\ pass_log'[1] =
                          PassCall("set_pipeline", <<Unwrap(RenderPipelineBefore(d))>>)]_vars

\* An attempt failed after an earlier one succeeded: the earlier pipeline is
\* still installed and is the one the last draw bound.
C2_Witness ==
    /\ Registered(1) /\ pending[1] = None /\ ready(1)
    /\ call_log # <<>>
    /\ ~LastAttemptCreated \/ LastAttemptDiagnostic
    /\ pass_log # <<>>
    /\ pass_log[1] = PassCall("set_pipeline", <<Unwrap(DP(1).render_pipeline)>>)

(***************************************************************************)
(* C3: new leaves the DrawablePipeline not ready, and it stays not ready   *)
(* until a create_pipeline takes its success branch.                       *)
(***************************************************************************)
C3_NotReadyUntilSuccess ==
    [][\A d \in Drawables :
          /\ NewStep(d) => RenderPipelineAfter(d) = None
          /\ (Registered(d) /\ ~ready(d) /\ RenderPipelineAfter(d) # None) =>
                (CommitStep(d) /\ Succeeded(Unwrap(pending[d])))]_vars

\* Still not ready after a completed attempt that failed.
C3_Witness ==
    /\ Registered(1) /\ pending[1] = None /\ ~ready(1)
    /\ call_log # <<>>
    /\ ~LastAttemptCreated \/ LastAttemptDiagnostic

(***************************************************************************)
(* C4: a create_pipeline on a not-ready DrawablePipeline whose name has no *)
(* vertex module or no fragment module ends with Err in hand, returns      *)
(* normally, and leaves the DrawablePipeline and the device as they were:  *)
(* still not ready, however often it is repeated.                          *)
(***************************************************************************)
LookupFailed(log) ==
    \E i \in CallsTo(log, "get_vertex") \cup CallsTo(log, "get_fragment") :
        log[i].ret = Some(FALSE)

C4_MissingShaderIsNoOp ==
    [][\A d \in Drawables :
          /\ (BeginStep(d) /\ ~ready(d) /\ LookupFailed(call_log')) =>
                /\ ~Unwrap(pending'[d]).pipeline.ok
                /\ UNCHANGED <<drawables, error_scopes, next_pipeline, panicked>>
          /\ (CommitStep(d) /\ ~ready(d) /\ ~Unwrap(pending[d]).pipeline.ok) =>
                /\ ~ready(d)'
                /\ UNCHANGED <<drawables, error_scopes, next_pipeline, panicked>>]_vars

\* A call that missed a shader module has completed: nothing is installed
\* and the device has created no pipeline.
C4_Witness ==
    /\ Registered(1) /\ pending[1] = None /\ ~ready(1) /\ ~panicked
    /\ LookupFailed(call_log)
    /\ next_pipeline = 1

(***************************************************************************)
(* C5: a draw on a ready DrawablePipeline makes exactly these calls, in    *)
(* this order: set_pipeline, set_push_constants (all stages, offset 0),    *)
(* set_bind_group(0, private), set_bind_group(1, universal), and then the  *)
(* drawable's own draw, once.  Whatever else reaches the pass comes after  *)
(* that call; when the drawable emits nothing the pass got those four.     *)
(***************************************************************************)
RenderPassCalls(log) == SelectSeq(log, LAMBDA c : c.on = "render_pass")

C5_DrawOrder ==
    [][\A d \in Drawables :
          (Registered(d) /\ ready(d) /\ Draw(d)) =>
              /\ Len(pass_log') >= 5
              /\ pass_log'[1] = PassCall("set_pipeline", <<Unwrap(DP(d).render_pipeline)>>)
              /\ pass_log'[2] = PassCall("set_push_constants",
                                         <<"ShaderStages::all", 0, "constants">>)
              /\ pass_log'[3] = PassCall("set_bind_group", <<0, DP(d).bind_group>>)
              /\ pass_log'[4] = PassCall("set_bind_group", <<1, UniversalBindGroup>>)
              /\ pass_log'[5] = DrawableCall(DP(d).name)
              /\ {i \in 1..Len(pass_log') : pass_log'[i].on = "drawable"} = {5}
              /\ Len(pass_log') = 5 => Len(RenderPassCalls(pass_log')) = 4]_vars

\* A draw whose drawable emitted nothing: four calls on the pass.
C5_Witness ==
    /\ Registered(1) /\ ready(1)
    /\ Len(pass_log) = 5
    /\ Len(RenderPassCalls(pass_log)) = 4
    /\ pass_log[5].on = "drawable"

(***************************************************************************)
(* C6: when N references return a layout and N return an entry, new builds *)
(* a bind-group layout of N entries and a bind group of N entries; the     *)
(* k-th reference (from 0, in declaration order) among those returning a   *)
(* layout gets binding k, likewise for entries, whatever binding the       *)
(* implementer wrote; references returning neither take no index.          *)
(***************************************************************************)
WithLayout(refs) == {i \in 1..Len(refs) : layout(refs[i]) # None}
WithEntry(refs) == {i \in 1..Len(refs) : entry(refs[i]) # None}
\* The k-th smallest (from 0) member of a set of positions.
KthOf(S, k) == CHOOSE x \in S : Cardinality({y \in S : y < x}) = k

C6_BindingsAreFilteredPositions ==
    [][\A d \in Drawables :
          NewStep(d) =>
              LET self == drawables'[d][1]
                  refs == self.drawable.references
                  L == WithLayout(refs)
                  E == WithEntry(refs)
                  N == Cardinality(L)
              IN  Cardinality(E) = N =>
                     /\ Len(self.bind_group_layout.entries) = N
                     /\ Len(self.bind_group.entries) = N
                     /\ \A k \in 0..(N - 1) :
                           /\ self.bind_group_layout.entries[k + 1] =
                                 [Unwrap(layout(refs[KthOf(L, k)])) EXCEPT !.binding = k]
                           /\ self.bind_group.entries[k + 1] =
                                 [Unwrap(entry(refs[KthOf(E, k)])) EXCEPT !.binding = k]]_vars

\* Just built from two references, the first returning neither: the second
\* holds binding 0 in both tables.
C6_Witness ==
    /\ Registered(1) /\ call_log = <<>> /\ pass_log = <<>>
    /\ Len(DP(1).drawable.references) = 2
    /\ DP(1).bind_group_layout.entries = <<[binding |-> 0, resource |-> 2]>>
    /\ DP(1).bind_group.entries = <<[binding |-> 0, resource |-> 2]>>

(***************************************************************************)
(* C7: a reference set in which some reference supplies a layout without   *)
(* an entry, or an entry without a layout, is flagged: no DrawablePipeline *)
(* comes out of new whose bind-group layout and bind group differ in       *)
(* length or give one binding index to two different references.           *)
(***************************************************************************)
TablesAgree(self) ==
    /\ Len(self.bind_group_layout.entries) = Len(self.bind_group.entries)
    /\ \A k \in 1..Len(self.bind_group_layout.entries) :
          self.bind_group_layout.entries[k].resource = self.bind_group.entries[k].resource

C7_MismatchIsFlagged ==
    \A d \in Drawables : Registered(d) => TablesAgree(DP(d))

(***************************************************************************)
(* C8: bind_group_layout and bind_group (and name) are fixed by new.  No   *)
(* step changes them, not even after the drawable's references changed;    *)
(* create_pipeline touches only render_pipeline, and draw touches no field *)
(* of the wrapper.                                                         *)
(***************************************************************************)
C8_BindGroupFixedAtConstruction ==
    [][\A d \in Drawables :
          Registered(d) =>
              /\ drawables'[d] # None
              /\ drawables'[d][1].bind_group_layout = DP(d).bind_group_layout
              /\ drawables'[d][1].bind_group = DP(d).bind_group
              /\ drawables'[d][1].name = DP(d).name
              /\ (BeginStep(d) \/ CommitStep(d)) =>
                    drawables'[d][1].drawable = DP(d).drawable
              /\ Draw(d) => RenderPipelineAfter(d) = RenderPipelineBefore(d)]_vars

\* The references have changed since construction, a pipeline has been
\* installed and drawn with, and the bind group is still the one new built.
C8_Witness ==
    /\ Registered(1) /\ ready(1) /\ pass_log # <<>>
    /\ DP(1).bind_group.entries # bind_group_entries(DP(1).drawable)
    /\ DP(1).bind_group_layout.entries # bind_group_layout_entries(DP(1).drawable)
    /\ pass_log[3] = PassCall("set_bind_group", <<0, DP(1).bind_group>>)

(***************************************************************************)
(* C9: draw on a DrawablePipeline that is not ready panics, before any     *)
(* call reaches the render pass or the drawable.                           *)
(***************************************************************************)
C9_DrawNotReadyPanics ==
    [][\A d \in Drawables :
          (Registered(d) /\ ~ready(d) /\ Draw(d)) =>
              /\ panicked'
              /\ pass_log' = <<>>
              /\ drawables' = drawables]_vars

C9_Witness ==
    /\ panicked
    /\ Registered(1) /\ ~ready(1)
    /\ pass_log = <<>>

(***************************************************************************)
(* C10: each create_pipeline pushes one error scope before its attempt and *)
(* pops one after it, whatever the attempt returns, so the device's scope  *)
(* stack is as deep after the call as before it.                           *)
(***************************************************************************)
AttemptCalls(log) ==
    CallsTo(log, "create_pipeline_layout") \cup CallsTo(log, "get_vertex")
        \cup CallsTo(log, "get_fragment") \cup CallsTo(log, "create_render_pipeline")

C10_ScopePushedAndPoppedOnce ==
    [][/\ Len(error_scopes') = Len(error_scopes)
       /\ \A d \in Drawables :
             BeginStep(d) =>
                 /\ CallsTo(call_log', "push_error_scope") = {1}
                 /\ CallsTo(call_log', "pop_error_scope") = {Len(call_log')}
                 /\ AttemptCalls(call_log') = 2..(Len(call_log') - 1)
                 /\ AttemptCalls(call_log') # {}]_vars

\* A call whose attempt returned early on a missing module has popped its
\* scope: the caller's scope alone is left on the stack.
C10_Witness ==
    /\ Registered(1) /\ pending[1] = None
    /\ LookupFailed(call_log)
    /\ call_log[Len(call_log)].op = "pop_error_scope"
    /\ Len(error_scopes) = 1

(***************************************************************************)
(* C11: when create_pipeline calls of distinct drawables are interleaved,  *)
(* each call pushes its scope, makes its attempt and pops its scope before *)
(* it suspends, so a diagnostic raised by one drawable's attempt is that   *)
(* drawable's alone: the first half of a call leaves the scope stack as it *)
(* found it and touches no other drawable, the diagnostic it carries over  *)
(* the suspension is exactly the one its own attempt raised, and the       *)
(* second half installs the drawable's own pipeline when its attempt was   *)
(* valid and installs nothing when it raised, whatever ran in between.     *)
(***************************************************************************)
OwnPipeline(d, pipeline) == pipeline.label = DrawableName(d) \o " Pipeline"

C11_DiagnosticStaysWithItsDrawable ==
    [][\A d \in Drawables :
          /\ BeginStep(d) =>
                /\ error_scopes' = error_scopes
                /\ \A e \in Drawables \ {d} :
                      pending'[e] = pending[e] /\ drawables'[e] = drawables[e]
                /\ (Unwrap(pending'[d]).validation_error # None) <=> raised'[d]
                /\ Unwrap(pending'[d]).pipeline.ok =>
                      OwnPipeline(d, Unwrap(pending'[d]).pipeline.value)
          /\ CommitStep(d) =>
                /\ \A e \in Drawables \ {d} : drawables'[e] = drawables[e]
                /\ raised[d] => RenderPipelineAfter(d) = RenderPipelineBefore(d)
                /\ (~raised[d] /\ Unwrap(pending[d]).pipeline.ok) =>
                      /\ RenderPipelineAfter(d) = Some(Unwrap(pending[d]).pipeline.value)
                      /\ OwnPipeline(d, Unwrap(RenderPipelineAfter(d)))]_vars

\* Drawable 1's attempt raised a diagnostic and is still suspended, while
\* drawable 2, whose attempt came later, has had its pipeline installed.
C11_Witness ==
    /\ pending[1] # None
    /\ raised[1] /\ Unwrap(pending[1]).pipeline.ok
    /\ pending[2] = None /\ ready(2)
    /\ DP(2).render_pipeline[1].id > Unwrap(pending[1]).pipeline.value.id
    /\ ~ready(1)

(***************************************************************************)
(* C12: the vertex buffers of a created pipeline are the vertex() results  *)
(* of the drawable's references as they are when create_pipeline is        *)
(* called, in declaration order, whatever layout() and entry() return; and *)
(* the binding tables built by new have one slot per layout() and one per  *)
(* entry(), none for a reference that returns only vertex().               *)
(***************************************************************************)
WithVertex(refs) == {i \in 1..Len(refs) : vertex(refs[i]) # None}
VertexOnly(refs) == WithVertex(refs) \ (WithLayout(refs) \cup WithEntry(refs))
BoundOnly(refs) == (WithLayout(refs) \cap WithEntry(refs)) \ WithVertex(refs)
ResourcesOf(entries) == {entries[k].resource : k \in 1..Len(entries)}
StreamsOf(buffers) == {buffers[k].stream : k \in 1..Len(buffers)}

C12_VertexBuffersAreTheVertexResults ==
    [][\A d \in Drawables :
          /\ (BeginStep(d) /\ LastAttemptCreated') =>
                LET refs    == DP(d).drawable.references
                    V       == WithVertex(refs)
                    buffers == Unwrap(LastAttemptPipeline').buffers
                IN  /\ Len(buffers) = Cardinality(V)
                    /\ \A k \in 0..(Cardinality(V) - 1) :
                          buffers[k + 1] = Unwrap(vertex(refs[KthOf(V, k)]))
                    /\ VertexOnly(refs) \subseteq StreamsOf(buffers)
                    /\ BoundOnly(refs) \cap StreamsOf(buffers) = {}
          /\ NewStep(d) =>
                LET self == drawables'[d][1]
                    refs == self.drawable.references
                IN  /\ Len(self.bind_group_layout.entries) = Cardinality(WithLayout(refs))
                    /\ Len(self.bind_group.entries) = Cardinality(WithEntry(refs))
                    /\ VertexOnly(refs) \cap ResourcesOf(self.bind_group_layout.entries) = {}
                    /\ VertexOnly(refs) \cap ResourcesOf(self.bind_group.entries) = {}
                    /\ BoundOnly(refs) \subseteq ResourcesOf(self.bind_group.entries)]_vars

\* Installed for a drawable whose first reference is bound and has no vertex
\* stream and whose second has only a vertex stream: the second is the one
\* vertex buffer, and the first holds binding 0.
C12_Witness ==
    /\ Registered(1) /\ pending[1] = None /\ ready(1)
    /\ Len(DP(1).drawable.references) = 2
    /\ BoundOnly(DP(1).drawable.references) = {1}
    /\ VertexOnly(DP(1).drawable.references) = {2}
    /\ Unwrap(DP(1).render_pipeline).buffers = <<[stream |-> 2]>>
    /\ DP(1).bind_group.entries = <<[binding |-> 0, resource |-> 1]>>

(***************************************************************************)
(* Vocabulary of the WinitRenderer properties: the steps are told apart by *)
(* the input winit_log records for them.                                   *)
(***************************************************************************)
ResizedStep == winit_log'.input.type = "Resized"
\* A Resumed step in which create_surface returned a surface.
ResumedStep == winit_log'.input = ResumedEvent /\ next_surface' = next_surface + 1
\* A Resized step in which handle_event called resize.
ResizeCalledStep == ResizedStep /\ winit_log'.calls # <<>>
SuspendedStep == winit_log'.input = SuspendedEvent
WinitDrawStep == winit_log'.input = DrawInput

WinitCallsTo(log, on, op) ==
    {i \in 1..Len(log.calls) : log.calls[i].on = on /\ log.calls[i].op = op}

SameDimensions(a, b) == a.width = b.width /\ a.height = b.height

(***************************************************************************)
(* C13: a resize records the new width and height in surface_config        *)
(* whatever they are; when either is zero it configures no surface and     *)
(* leaves the renderer's size alone; when both are non-zero it resizes the *)
(* renderer to exactly them and configures the surface, if there is one,   *)
(* with the updated surface_config.  So the renderer never has, and is     *)
(* never asked for, a zero width or height, and no step of the window      *)
(* backend touches the pipeline of a registered drawable.                  *)
(***************************************************************************)
C13_ResizeSkipsZeroSizes ==
    [][/\ (ResizedStep /\ ~window_initializing) =>
             LET w == winit_log'.input.width
                 h == winit_log'.input.height
             IN  /\ surface_config' = [surface_config EXCEPT !.width = w, !.height = h]
                 /\ (w = 0 \/ h = 0) =>
                       /\ surface' = surface
                       /\ renderer' = renderer
                       /\ WinitCallsTo(winit_log', "surface", "configure") = {}
                       /\ WinitCallsTo(winit_log', "renderer", "resize") = {}
                 /\ (w # 0 /\ h # 0) =>
                       /\ renderer' = [width |-> w, height |-> h]
                       /\ \E i \in WinitCallsTo(winit_log', "renderer", "resize") :
                             winit_log'.calls[i].args = <<w, h>>
                       /\ surface = None =>
                             /\ surface' = None
                             /\ WinitCallsTo(winit_log', "surface", "configure") = {}
                       /\ surface # None =>
                             /\ surface' = Some([id     |-> Unwrap(surface).id,
                                                 config |-> surface_config'])
                             /\ \E i \in WinitCallsTo(winit_log', "surface", "configure") :
                                   winit_log'.calls[i].args =
                                       <<Unwrap(surface).id, surface_config'>>
       /\ renderer'.width # 0 /\ renderer'.height # 0
       /\ \A i \in WinitCallsTo(winit_log', "renderer", "resize") :
             winit_log'.calls[i].args[1] # 0 /\ winit_log'.calls[i].args[2] # 0
       /\ \A d \in Drawables : Registered(d) => drawables'[d] = drawables[d]]_vars

\* A resize to a zero width has been recorded: the surface still holds its
\* earlier, non-zero configuration and the renderer its earlier size.
C13_Witness ==
    /\ winit_log.input = ResizedEvent(0, MaxSize)
    /\ surface_config.width = 0 /\ surface_config.height = MaxSize
    /\ surface # None
    /\ Unwrap(surface).config.width # 0
    /\ renderer.width # 0
    /\ ready(1)

(***************************************************************************)
(* C14: Suspended drops the surface, and the surface stays absent until a  *)
(* Resumed event; Resumed installs a surface the instance has just created *)
(* and configures it with the stored surface_config, whose width and       *)
(* height are those last recorded; a draw with no surface returns true     *)
(* and renders and presents nothing; a resize with no surface still        *)
(* records its width and height in surface_config.                         *)
(***************************************************************************)
C14_SurfaceAbsentWhileSuspended ==
    [][/\ SuspendedStep => surface' = None
       /\ (surface = None /\ surface' # None) => ResumedStep
       /\ ResumedStep =>
             /\ ~panicked'
             /\ surface' # None
             /\ Unwrap(surface').id = next_surface
             /\ surface = None \/ Unwrap(surface').id > Unwrap(surface).id
             /\ Unwrap(surface').config = surface_config'
             /\ SameDimensions(surface_config', surface_config)
             /\ winit_log'.calls[1] =
                    WinitCall("surface", "configure", <<next_surface, surface_config'>>)
       /\ (WinitDrawStep /\ surface = None) =>
             /\ winit_log'.result = Some(TRUE)
             /\ winit_log'.calls = <<>>
             /\ surface' = None
       /\ (ResizeCalledStep /\ surface = None) =>
             /\ SameDimensions(surface_config', winit_log'.input)
             /\ surface' = None]_vars

(***************************************************************************)
(* C15: a draw with a surface present asks it for the current texture;     *)
(* when it gets one it renders the scene, then presents the frame, and     *)
(* returns true; on any error it returns false and neither renders nor     *)
(* presents; it configures the surface, with the stored surface_config,    *)
(* for the Lost error and for no other outcome; and the surface is the     *)
(* same surface afterwards.                                                *)
(***************************************************************************)
C15_DrawOutcomes ==
    [][(WinitDrawStep /\ surface # None) =>
          LET id       == Unwrap(surface).id
              calls    == winit_log'.calls
              acquired == calls[1].args[2]
          IN  /\ Len(calls) >= 1
              /\ calls[1].op = "get_current_texture" /\ calls[1].args[1] = id
              /\ surface' # None /\ Unwrap(surface').id = id
              /\ surface_config' = surface_config
              /\ acquired = "Ok" =>
                    /\ SubSeq(calls, 2, Len(calls)) =
                          <<WinitCall("renderer", "render", <<id>>),
                            WinitCall("frame", "present", <<id>>)>>
                    /\ winit_log'.result = Some(TRUE)
                    /\ surface' = surface
              /\ acquired # "Ok" =>
                    /\ winit_log'.result = Some(FALSE)
                    /\ WinitCallsTo(winit_log', "renderer", "render") = {}
                    /\ WinitCallsTo(winit_log', "frame", "present") = {}
              /\ acquired = "Lost" =>
                    /\ SubSeq(calls, 2, Len(calls)) =
                          <<WinitCall("surface", "configure", <<id, surface_config>>)>>
                    /\ Unwrap(surface').config = surface_config
              /\ acquired \notin {"Ok", "Lost"} =>
                    /\ Len(calls) = 1
                    /\ surface' = surface]_vars

(***************************************************************************)
(* C16: a Resized event does nothing at all (no resize, no redraw request, *)
(* surface_config as it was) when the most recent NewEvents had start     *)
(* cause Init, and in every other case, one where another NewEvents has    *)
(* come since included, it is applied and a redraw is requested.           *)
(***************************************************************************)
C16_ResizedIgnoredOnlyDuringInit ==
    [][ResizedStep =>
          /\ start_cause = Some("Init") =>
                /\ winit_log'.calls = <<>>
                /\ surface_config' = surface_config
                /\ surface' = surface
                /\ renderer' = renderer
          /\ start_cause # Some("Init") =>
                /\ SameDimensions(surface_config', winit_log'.input)
                /\ winit_log'.calls # <<>>
                /\ winit_log'.calls[Len(winit_log'.calls)] =
                       WinitCall("window", "request_redraw", <<>>)
                /\ Cardinality(WinitCallsTo(winit_log', "window", "request_redraw")) = 1]_vars

\* A Resized event was applied: the most recent NewEvents had cause Poll.
C16_Witness ==
    /\ winit_log.input = ResizedEvent(MaxSize, 1)
    /\ start_cause = Some("Poll")
    /\ window_initializing = FALSE
    /\ winit_log.calls # <<>>
    /\ SameDimensions(surface_config, [width |-> MaxSize, height |-> 1])
    /\ renderer = [width |-> MaxSize, height |-> 1]

(***************************************************************************)
(* C17: for every width and height (here: every one within the bounds, for *)
(* all of which 4 * width + 256 fits in 32 bits), padded_bytes_per_row is  *)
(* a multiple of 256 and the smallest one strictly greater than 4 * width, *)
(* the padding being between 1 and 256 and a full 256 when 4 * width is    *)
(* already aligned; padded_width is a quarter of it and at least width;    *)
(* and the image draw returns has exactly width x height pixels.           *)
(***************************************************************************)
DrawFinished == offscreen_pc = Len(DrawSteps) /\ ~panicked

C17_PaddedRowsAndCroppedImage ==
    /\ offscreen_locals.layout # None =>
          LET row == Unwrap(offscreen_locals.layout)
              w   == renderer.width
          IN  /\ row.padded_bytes_per_row % 256 = 0
              /\ row.padded_bytes_per_row > 4 * w
              /\ row.padded_bytes_per_row - 256 <= 4 * w
              /\ row.padding = row.padded_bytes_per_row - 4 * w
              /\ row.padding \in 1..256
              /\ (4 * w) % 256 = 0 => row.padding = 256
              /\ row.padded_width * 4 = row.padded_bytes_per_row
              /\ row.padded_width >= w
    /\ offscreen_locals.image # None =>
          Unwrap(offscreen_locals.image) =
              [width |-> renderer.width, height |-> renderer.height]
    /\ DrawFinished => offscreen_locals.image # None

\* A draw of a 64 x 2 renderer has finished: its rows, already aligned at
\* 256 bytes, were padded by a further 256 to 128 pixels, and the image is
\* 64 x 2.
C17_Witness ==
    /\ DrawFinished
    /\ renderer = [width |-> 64, height |-> 2]
    /\ Unwrap(offscreen_locals.layout).padding = 256
    /\ Unwrap(offscreen_locals.layout).padded_width = 128
    /\ Unwrap(offscreen_locals.data) = 1024
    /\ Unwrap(offscreen_locals.image) = [width |-> 64, height |-> 2]

(***************************************************************************)
(* C18: in every draw the scene is rendered, then the copy is submitted,   *)
(* then the mapping is requested, then the device is polled, then the      *)
(* mapping result is awaited, then the mapped data is read; when the       *)
(* await is reached the callback has already sent the result, and every    *)
(* draw that has taken its first step comes to its end (or to a panic)     *)
(* instead of waiting forever.                                             *)
(***************************************************************************)
HasRun(step) == \E i \in 1..Len(offscreen_log) : offscreen_log[i] = step
RunsAfter(later, earlier) ==
    \A j \in 1..Len(offscreen_log) :
        offscreen_log[j] = later =>
            \E i \in 1..(j - 1) : offscreen_log[i] = earlier

DrawStepsInOrder ==
    /\ RunsAfter("submit", "render")
    /\ RunsAfter("map_async", "submit")
    /\ RunsAfter("poll", "map_async")
    /\ RunsAfter("await", "poll")
    /\ RunsAfter("get_mapped_range", "await")
    /\ (HasRun("poll") /\ ~HasRun("await")) => gpu.channel # None
    /\ HasRun("get_mapped_range") => gpu.mapped /\ gpu.completed

C18_MapPollAwaitAndTermination ==
    /\ []DrawStepsInOrder
    /\ (offscreen_pc > 0) ~> (offscreen_pc = Len(DrawSteps) \/ panicked)

\* A draw has run to its end: the mapping was requested, the poll made the
\* callback send Ok, the await took it and the data was read.
C18_Witness ==
    /\ offscreen_pc = Len(DrawSteps) /\ ~panicked
    /\ offscreen_log = <<"create_texture", "render", "create_buffer", "submit",
                         "map_async", "poll", "await", "get_mapped_range", "crop">>
    /\ gpu.channel = Some("Ok")
    /\ gpu.mapped

=============================================================================
